---- MODULE Spec2Model ----
(***************************************************************************)
(* A model of boggle_solver.py: the Boggle object (grid, dictionary,       *)
(* prefixes, solution_words), its constructor, its two setters, and the    *)
(* depth-first search of _solve / _dfs as a machine with an explicit call  *)
(* stack.                                                                  *)
(*                                                                         *)
(* Python values are tagged records [type, val]: a str is the sequence of  *)
(* its characters, a list the sequence of its elements, a set a TLA+ set.  *)
(***************************************************************************)
EXTENDS Integers, Sequences, FiniteSets, TLC

VARIABLES
    grid,            \* self.grid: None or the list supplied by the caller
    dictionary,      \* self.dictionary: None or a set of upper-cased words
    prefixes,        \* self.prefixes: a set of words
    solution_words,  \* self.solution_words: a list of words
    pc,              \* where the program is
    call,            \* the most recent call on the object and its argument
    row, col,        \* the loop variables of _solve
    visited,         \* the visited set _solve hands to _dfs
    stack,           \* the active calls of _dfs, the innermost last
    ncalls           \* setter calls made after construction

vars == <<grid, dictionary, prefixes, solution_words, pc, call, row, col,
          visited, stack, ncalls>>

----------------------------------------------------------------------------
(* Bounds of the model *)

MaxRows == 2       \* rows of a generated grid
MaxCols == 2       \* columns of a generated grid
MaxCells == 4      \* cells of a generated grid
MaxDictLen == 2    \* entries of a generated dictionary list
MaxCalls == 2      \* setter calls after construction
ApiMaxCells == 2   \* cells of a grid in the setter specification

(* Program constant: the minimum length of an emitted word *)
MinWordLength == 3

----------------------------------------------------------------------------
(* Python values *)

None == [type |-> "NoneType", val |-> <<>>]
Str(s) == [type |-> "str", val |-> s]
Int0 == [type |-> "int", val |-> <<>>]
List(xs) == [type |-> "list", val |-> xs]
PySet(S) == [type |-> "set", val |-> S]

IsNone(v) == v.type = "NoneType"

\* Python truthiness, as used by "not grid" and "not dictionary"
Falsy(v) ==
    \/ v.type = "NoneType"
    \/ v.type = "int"
    \/ v.type \in {"list", "str"} /\ Len(v.val) = 0

\* str.upper() on one character
UpperChar(c) ==
    CASE c = "a" -> "A"
      [] c = "b" -> "B"
      [] c = "e" -> "E"
      [] c = "i" -> "I"
      [] c = "q" -> "Q"
      [] c = "s" -> "S"
      [] c = "t" -> "T"
      [] c = "u" -> "U"
      [] OTHER -> c

\* str.upper()
upper(s) == [i \in 1..Len(s) |-> UpperChar(s[i])]

----------------------------------------------------------------------------
(* Validation *)

\* a variant of _validateGrid that does not look at the cells
_validateGridNoCellCheck(g) ==
    IF Falsy(g) \/ g.type # "list" THEN FALSE
    ELSE IF Len(g.val) = 0 THEN FALSE
    ELSE LET row_length == Len(g.val[1].val)
         IN  \A i \in 1..Len(g.val) :
                 /\ g.val[i].type = "list"
                 /\ Len(g.val[i].val) = row_length

\* a variant of _validateGrid that does not compare the lengths of the rows
_validateGridNoLengthCheck(g) ==
    IF Falsy(g) \/ g.type # "list" THEN FALSE
    ELSE IF Len(g.val) = 0 THEN FALSE
    ELSE \A i \in 1..Len(g.val) :
             /\ g.val[i].type = "list"
             /\ \A j \in 1..Len(g.val[i].val) : g.val[i].val[j].type = "str"

\* Boggle._validateGrid. len(grid[0]) is taken of rows that have a length
\* (a list or a str), which is what the inputs below supply.
_validateGrid(g) ==
    IF Falsy(g) \/ g.type # "list" THEN FALSE
    ELSE IF Len(g.val) = 0 THEN FALSE
    ELSE LET row_length == Len(g.val[1].val)
         IN  \A i \in 1..Len(g.val) :
                 LET r == g.val[i]
                 IN  /\ r.type = "list"
                     /\ Len(r.val) = row_length
                     /\ \A j \in 1..Len(r.val) : r.val[j].type = "str"

\* Boggle._validateDictionary
_validateDictionary(d) ==
    IF Falsy(d) \/ d.type # "list" THEN FALSE
    ELSE \A i \in 1..Len(d.val) : d.val[i].type = "str"

----------------------------------------------------------------------------
(* Dictionary normalisation and the prefix set *)

\* set(word.upper() for word in dictionary)
UpperWords(d) == {upper(d.val[i].val) : i \in 1..Len(d.val)}

\* a variant of BuildPrefixes with range(1, len(word)): the word itself is left out
BuildProperPrefixes(words) ==
    UNION {{SubSeq(w, 1, i) : i \in 1..(Len(w) - 1)} : w \in words}

\* word[:i] for i in range(1, len(word) + 1), for every word
BuildPrefixes(words) ==
    UNION {{SubSeq(w, 1, i) : i \in 1..Len(w)} : w \in words}

----------------------------------------------------------------------------
(* Tiles and adjacency *)

\* a variant of _expandTile that upper-cases the special tiles only
_expandTileRaw(tile) ==
    IF upper(tile) \in {<<"Q", "U">>, <<"S", "T">>, <<"I", "E">>}
    THEN upper(tile)
    ELSE tile

\* Boggle._expandTile on the characters of a tile
_expandTile(tile) ==
    LET tile_upper == upper(tile)
    IN  IF tile_upper = <<"Q", "U">> THEN <<"Q", "U">>
        ELSE IF tile_upper = <<"S", "T">> THEN <<"S", "T">>
        ELSE IF tile_upper = <<"I", "E">> THEN <<"I", "E">>
        ELSE tile_upper

\* the nine (dr, dc) pairs in the order of the two nested loops
Offsets ==
    LET d == <<-1, 0, 1>>
    IN  [k \in 1..9 |-> <<d[((k - 1) \div 3) + 1], d[((k - 1) % 3) + 1]>>]

\* the test that keeps an offset: not (0, 0), and the cell is on the grid
KeepOffset(o, r, c, rows, cols) ==
    /\ ~(o[1] = 0 /\ o[2] = 0)
    /\ 0 <= r + o[1] /\ r + o[1] < rows
    /\ 0 <= c + o[2] /\ c + o[2] < cols

\* Boggle._getNeighbors: the neighbours of (r, c), in enumeration order
_getNeighbors(r, c, rows, cols) ==
    LET kept == SelectSeq(Offsets, LAMBDA o : KeepOffset(o, r, c, rows, cols))
    IN  [k \in 1..Len(kept) |-> <<r + kept[k][1], c + kept[k][2]>>]

\* len(self.grid) and len(self.grid[0])
Rows(g) == Len(g.val)
Cols(g) == Len(g.val[1].val)

\* self.grid[row][col], the characters of the tile
Tile(g, r, c) == g.val[r + 1].val[c + 1].val

----------------------------------------------------------------------------
(* The values the callers supply *)

TilePool == {Str(<<"a">>), Str(<<"A">>), Str(<<"B">>), Str(<<"Q", "u">>)}
CellPool == TilePool \cup {Int0}

WordPool ==
    {<<"A", "B">>, <<"A", "B", "A">>, <<"a", "b", "a">>,
     <<"Q", "U", "A">>, <<"Q", "U", "A", "B">>}
EntryPool == {Str(w) : w \in WordPool} \cup {Int0}

Shapes(maxRows, maxCols, maxCells) ==
    {s \in (1..maxRows) \X (0..maxCols) : s[1] * s[2] <= maxCells}

GridsOfShape(r, c, cells) ==
    {List([i \in 1..r |-> List(m[i])]) : m \in [1..r -> [1..c -> cells]]}

RectGrids(maxRows, maxCols, maxCells, cells) ==
    UNION {GridsOfShape(s[1], s[2], cells) :
               s \in Shapes(maxRows, maxCols, maxCells)}

\* grids that are no rectangle of cells, or hold an empty tile
ExtraGrids ==
    {None,
     List(<<>>),
     List(<<Str(<<"a", "B">>)>>),
     List(<<List(<<Str(<<"a">>)>>), List(<<Str(<<"a">>), Str(<<"B">>)>>)>>),
     List(<<List(<<Str(<<"a">>), Str(<<"B">>)>>), List(<<Str(<<"a">>)>>)>>),
     List(<<List(<<Str(<<>>)>>)>>),
     List(<<List(<<Str(<<"Q", "u">>), Str(<<>>), Str(<<"a">>)>>)>>),
     List(<<List(<<Str(<<"a">>), Str(<<"B">>)>>),
            List(<<Str(<<>>), Str(<<"A">>)>>)>>),
     List(<<List(<<Str(<<>>), Str(<<>>)>>),
            List(<<Str(<<"a">>), Str(<<"B">>)>>)>>)}

GridInputs == RectGrids(MaxRows, MaxCols, MaxCells, CellPool) \cup ExtraGrids

DictsUpTo(n) == {List(s) : s \in UNION {[1..k -> EntryPool] : k \in 0..n}}

DictInputs == DictsUpTo(MaxDictLen) \cup {None}

\* the smaller inputs of the setter specification
ApiGridInputs ==
    RectGrids(1, ApiMaxCells, ApiMaxCells, {Str(<<"a">>), Str(<<"Q", "u">>), Int0})
        \cup {None, List(<<>>)}
ApiDictInputs == DictsUpTo(1) \cup {None}

----------------------------------------------------------------------------
(* The object *)

Init ==
    /\ grid = None
    /\ dictionary = None
    /\ prefixes = {}
    /\ solution_words = <<>>
    /\ pc = "setGrid"
    /\ call = [op |-> "__init__", arg |-> None]
    /\ row = 0
    /\ col = 0
    /\ visited = {}
    /\ stack = <<>>
    /\ ncalls = 0

\* Boggle.setGrid
setGrid(g) ==
    /\ grid' = IF ~_validateGrid(g) THEN None ELSE g
    /\ call' = [op |-> "setGrid", arg |-> g]

\* Boggle.setDictionary
setDictionary(d) ==
    /\ IF ~_validateDictionary(d)
       THEN /\ dictionary' = None
            /\ UNCHANGED prefixes
       ELSE /\ dictionary' = PySet(UpperWords(d))
            /\ prefixes' = BuildPrefixes(UpperWords(d))
    /\ call' = [op |-> "setDictionary", arg |-> d]

\* Boggle.getSolution
getSolution == solution_words

\* __init__: self.setGrid(grid)
InitSetGrid(g) ==
    /\ pc = "setGrid"
    /\ setGrid(g)
    /\ pc' = "setDictionary"
    /\ UNCHANGED <<dictionary, prefixes, solution_words, row, col, visited,
                   stack, ncalls>>

\* __init__: self.setDictionary(dictionary)
InitSetDictionary(d) ==
    /\ pc = "setDictionary"
    /\ setDictionary(d)
    /\ pc' = "check"
    /\ UNCHANGED <<grid, solution_words, row, col, visited, stack, ncalls>>

\* __init__: the test before self._solve() fails, the constructor returns
InitSkipSolve ==
    /\ pc = "check"
    /\ ~(~IsNone(grid) /\ ~IsNone(dictionary))
    /\ pc' = "done"
    /\ UNCHANGED <<grid, dictionary, prefixes, solution_words, call, row, col,
                   visited, stack, ncalls>>

\* a setGrid call on the constructed object
CallSetGrid(g) ==
    /\ pc = "done"
    /\ ncalls < MaxCalls
    /\ setGrid(g)
    /\ ncalls' = ncalls + 1
    /\ UNCHANGED <<dictionary, prefixes, solution_words, pc, row, col, visited,
                   stack>>

\* a setDictionary call on the constructed object
CallSetDictionary(d) ==
    /\ pc = "done"
    /\ ncalls < MaxCalls
    /\ setDictionary(d)
    /\ ncalls' = ncalls + 1
    /\ UNCHANGED <<grid, solution_words, pc, row, col, visited, stack>>

----------------------------------------------------------------------------
(* The search: _solve and _dfs *)

\* a call of _dfs at its first line
NewFrame(r, c, w) ==
    [row |-> r, col |-> c, current_word |-> w, new_word |-> <<>>,
     neighbors |-> <<>>, i |-> 0, at |-> "enter"]

Top == stack[Len(stack)]
Front(s) == SubSeq(s, 1, Len(s) - 1)
SetTop(f) == [stack EXCEPT ![Len(stack)] = f]

\* new_word = current_word + self._expandTile(self.grid[row][col])
NewWord(f) == f.current_word \o _expandTile(Tile(grid, f.row, f.col))

\* "new_word in self.solution_words"
InList(sol, w) == \E k \in 1..Len(sol) : sol[k] = w

\* a variant of LongEnough that is off by one
LongEnoughOffByOne(w) == Len(w) >= MinWordLength - 1

\* "len(new_word) >= 3"
LongEnough(w) == Len(w) >= MinWordLength

\* a variant of Accept without the test "not in self.solution_words"
AcceptAgain(sol, w, dict) ==
    IF LongEnough(w) /\ w \in dict THEN Append(sol, w) ELSE sol

\* the acceptance test of _dfs and its append
Accept(sol, w, dict) ==
    IF LongEnough(w) /\ w \in dict
    THEN IF ~InList(sol, w) THEN Append(sol, w) ELSE sol
    ELSE sol

\* a variant of NotVisited that lets a path come back to a cell
NotVisitedIgnored(p, v) == TRUE

\* "(next_row, next_col) not in visited"
NotVisited(p, v) == p \notin v

\* visited.add(p) and visited.remove(p)
Mark(v, p) == v \cup {p}

\* a variant of Unmark that forgets to backtrack
UnmarkForgotten(v, p) == v

Unmark(v, p) == v \ {p}

\* a variant of NextIndex in which the loop does not move on
NextIndexStuck(i) == i

\* the loop over the neighbours moves to its next element
NextIndex(i) == i + 1

\* the next (row, col) of the two nested loops of _solve
NextCell(r, c, cols) == IF c + 1 < cols THEN <<r, c + 1>> ELSE <<r + 1, 0>>

\* _solve, entered from __init__ when grid and dictionary are both held
SolveBegin ==
    /\ pc = "check"
    /\ ~IsNone(grid) /\ ~IsNone(dictionary)
    /\ solution_words' = <<>>
    /\ row' = 0
    /\ col' = 0
    /\ pc' = "solve"
    /\ call' = [op |-> "_solve", arg |-> None]
    /\ UNCHANGED <<grid, dictionary, prefixes, visited, stack, ncalls>>

\* _solve: one starting cell, a fresh visited set, the call of _dfs
SolveCell ==
    /\ pc = "solve"
    /\ row < Rows(grid) /\ col < Cols(grid)
    /\ visited' = {<<row, col>>}
    /\ stack' = <<NewFrame(row, col, <<>>)>>
    /\ pc' = "dfs"
    /\ UNCHANGED <<grid, dictionary, prefixes, solution_words, call, row, col,
                   ncalls>>

\* _solve: the loops are exhausted, _solve and the constructor return
SolveEnd ==
    /\ pc = "solve"
    /\ ~(row < Rows(grid) /\ col < Cols(grid))
    /\ pc' = "done"
    /\ UNCHANGED <<grid, dictionary, prefixes, solution_words, call, row, col,
                   visited, stack, ncalls>>

\* the innermost call of _dfs returns: to its caller's backtrack line, or to
\* the loops of _solve
Return ==
    IF Len(stack) = 1
    THEN /\ stack' = <<>>
         /\ pc' = "solve"
         /\ row' = NextCell(row, col, Cols(grid))[1]
         /\ col' = NextCell(row, col, Cols(grid))[2]
    ELSE /\ stack' = Front(stack)
         /\ UNCHANGED <<pc, row, col>>

\* _dfs: new_word is no prefix of a dictionary word, return
DfsPrune ==
    /\ pc = "dfs"
    /\ Top.at = "enter"
    /\ NewWord(Top) \notin prefixes
    /\ Return
    /\ UNCHANGED <<grid, dictionary, prefixes, solution_words, call, visited,
                   ncalls>>

\* _dfs: new_word is a prefix; accept it if it is a word, list the neighbours
DfsExpand ==
    /\ pc = "dfs"
    /\ Top.at = "enter"
    /\ NewWord(Top) \in prefixes
    /\ solution_words' = Accept(solution_words, NewWord(Top), dictionary.val)
    /\ stack' = SetTop([Top EXCEPT
                          !.new_word = NewWord(Top),
                          !.neighbors = _getNeighbors(Top.row, Top.col,
                                                      Rows(grid), Cols(grid)),
                          !.i = 1,
                          !.at = "loop"])
    /\ UNCHANGED <<grid, dictionary, prefixes, pc, call, row, col, visited,
                   ncalls>>

\* _dfs: the next neighbour is not visited: mark it and recurse
DfsDescend ==
    /\ pc = "dfs"
    /\ Top.at = "loop"
    /\ Top.i <= Len(Top.neighbors)
    /\ NotVisited(Top.neighbors[Top.i], visited)
    /\ visited' = Mark(visited, Top.neighbors[Top.i])
    /\ stack' = Append(SetTop([Top EXCEPT !.at = "back"]),
                       NewFrame(Top.neighbors[Top.i][1],
                                Top.neighbors[Top.i][2], Top.new_word))
    /\ UNCHANGED <<grid, dictionary, prefixes, solution_words, pc, call, row,
                   col, ncalls>>

\* _dfs: the next neighbour is visited: go on with the loop
DfsSkip ==
    /\ pc = "dfs"
    /\ Top.at = "loop"
    /\ Top.i <= Len(Top.neighbors)
    /\ ~NotVisited(Top.neighbors[Top.i], visited)
    /\ stack' = SetTop([Top EXCEPT !.i = NextIndex(Top.i)])
    /\ UNCHANGED <<grid, dictionary, prefixes, solution_words, pc, call, row,
                   col, visited, ncalls>>

\* _dfs: the recursive call has returned: unmark the neighbour
DfsBacktrack ==
    /\ pc = "dfs"
    /\ Top.at = "back"
    /\ visited' = Unmark(visited, Top.neighbors[Top.i])
    /\ stack' = SetTop([Top EXCEPT !.i = NextIndex(Top.i), !.at = "loop"])
    /\ UNCHANGED <<grid, dictionary, prefixes, solution_words, pc, call, row,
                   col, ncalls>>

\* _dfs: the loop over the neighbours is exhausted, return
DfsReturn ==
    /\ pc = "dfs"
    /\ Top.at = "loop"
    /\ Top.i > Len(Top.neighbors)
    /\ Return
    /\ UNCHANGED <<grid, dictionary, prefixes, solution_words, call, visited,
                   ncalls>>

Search ==
    \/ SolveBegin
    \/ SolveCell
    \/ SolveEnd
    \/ DfsPrune
    \/ DfsExpand
    \/ DfsDescend
    \/ DfsSkip
    \/ DfsBacktrack
    \/ DfsReturn

----------------------------------------------------------------------------
(* Specifications *)

\* the construction of one Boggle object
Next ==
    \/ \E g \in GridInputs : InitSetGrid(g)
    \/ \E d \in DictInputs : InitSetDictionary(d)
    \/ InitSkipSolve
    \/ Search

Spec == Init /\ [][Next]_vars

\* once _solve is entered, Python executes statement after statement
FairSpec == Spec /\ WF_vars(Search)

\* construction, then setter calls on the constructed object
NextApi ==
    \/ \E g \in ApiGridInputs : InitSetGrid(g)
    \/ \E d \in ApiDictInputs : InitSetDictionary(d)
    \/ InitSkipSolve
    \/ Search
    \/ \E g \in ApiGridInputs : CallSetGrid(g)
    \/ \E d \in ApiDictInputs : CallSetDictionary(d)

SpecApi == Init /\ [][NextApi]_vars

----------------------------------------------------------------------------
(* Vocabulary of the properties, stated on the grid and not on the search *)

\* the upper-case letter a character stands for
LetterOf(c) ==
    LET pairs == {<<"a", "A">>, <<"b", "B">>, <<"e", "E">>, <<"i", "I">>,
                  <<"q", "Q">>, <<"s", "S">>, <<"t", "T">>, <<"u", "U">>}
    IN  IF \E q \in pairs : q[1] = c
        THEN (CHOOSE q \in pairs : q[1] = c)[2]
        ELSE c

\* the letters a tile or a dictionary entry spells
Spell(t) == [k \in 1..Len(t) |-> LetterOf(t[k])]

UpperLetters == {"A", "B", "E", "I", "Q", "S", "T", "U"}
IsUpperWord(w) == \A k \in 1..Len(w) : w[k] \in UpperLetters

CellsOf(g) == (0..(Rows(g) - 1)) \X (0..(Cols(g) - 1))

Abs(n) == IF n < 0 THEN -n ELSE n

\* horizontal, vertical or diagonal neighbours
Adjacent(p, q) ==
    /\ p # q
    /\ Abs(p[1] - q[1]) <= 1
    /\ Abs(p[2] - q[2]) <= 1

Range(f) == {f[k] : k \in DOMAIN f}

RECURSIVE Grow(_, _, _, _)
\* P and everything P grows into in n rounds; simple: no cell twice
Grow(g, P, n, simple) ==
    IF n = 0 \/ P = {} THEN P
    ELSE LET longer ==
               UNION {{Append(path, q) :
                          q \in {c \in CellsOf(g) :
                                    /\ Adjacent(path[Len(path)], c)
                                    /\ simple => c \notin Range(path)}} :
                      path \in P}
         IN  P \cup Grow(g, longer, n - 1, simple)

\* every path of distinct, consecutively adjacent cells
SimplePaths(g) ==
    Grow(g, {<<c>> : c \in CellsOf(g)}, Cardinality(CellsOf(g)), TRUE)

\* every walk of at most n consecutively adjacent cells, revisits allowed
Walks(g, n) == Grow(g, {<<c>> : c \in CellsOf(g)}, n - 1, FALSE)

RECURSIVE WordOf(_, _)
\* the letters spelled along a path
WordOf(g, path) ==
    IF path = <<>> THEN <<>>
    ELSE Spell(Tile(g, path[1][1], path[1][2])) \o WordOf(g, Tail(path))

IsPrefixOf(t, w) == Len(t) <= Len(w) /\ SubSeq(w, 1, Len(t)) = t

RECURSIVE SpellsFrom(_, _, _, _)
\* some path starts at cell c, avoids the cells of used, never holds a cell
\* twice, steps to adjacent cells only and spells exactly w
SpellsFrom(g, w, c, used) ==
    LET t == Spell(Tile(g, c[1], c[2]))
    IN  /\ IsPrefixOf(t, w)
        /\ \/ Len(t) = Len(w)
           \/ \E q \in CellsOf(g) \ (used \cup {c}) :
                  /\ Adjacent(c, q)
                  /\ SpellsFrom(g, SubSeq(w, Len(t) + 1, Len(w)), q,
                                used \cup {c})

\* some simple path of the grid spells w
HasSimplePath(g, w) == \E c \in CellsOf(g) : SpellsFrom(g, w, c, {})

Found == {solution_words[k] : k \in 1..Len(solution_words)}

Held == ~IsNone(grid) /\ ~IsNone(dictionary)

----------------------------------------------------------------------------
(* C1 *)

\* the invalid grids of the claim: empty, not rectangular, a non-text cell
BadGridInput(g) ==
    /\ g.type = "list"
    /\ \A i \in 1..Len(g.val) : g.val[i].type = "list"
    /\ \/ Len(g.val) = 0
       \/ \E i, j \in 1..Len(g.val) : Len(g.val[i].val) # Len(g.val[j].val)
       \/ \E i \in 1..Len(g.val) :
              \E j \in 1..Len(g.val[i].val) : g.val[i].val[j].type # "str"

\* the invalid dictionaries of the claim: empty, a non-text entry
BadDictInput(d) ==
    /\ d.type = "list"
    /\ \/ Len(d.val) = 0
       \/ \E i \in 1..Len(d.val) : d.val[i].type # "str"

\* C1: when the constructor is given an empty grid, a grid that is not
\* rectangular, a grid with a non-text cell, an empty dictionary or a
\* dictionary with a non-text entry, that input is held as absent; and
\* while the grid or the dictionary is absent the constructor is never
\* inside _solve or _dfs and getSolution() is the empty sequence.
C1_InvalidInputYieldsEmpty ==
    /\ (call.op = "setGrid" /\ BadGridInput(call.arg)) => IsNone(grid)
    /\ (call.op = "setDictionary" /\ BadDictInput(call.arg))
           => IsNone(dictionary)
    /\ ~Held => (pc \notin {"solve", "dfs"} /\ getSolution = <<>>)

\* a valid grid with the empty dictionary: constructed, nothing found
C1_Witness ==
    /\ pc = "done"
    /\ ~IsNone(grid)
    /\ call = [op |-> "setDictionary", arg |-> List(<<>>)]
    /\ IsNone(dictionary)
    /\ getSolution = <<>>

----------------------------------------------------------------------------
(* C2 *)

\* C2: at every point of the construction, every word of the result is in
\* the held (upper-cased) dictionary and has at least 3 letters, counted
\* after tile expansion.
C2_ResultsAreLongDictionaryWords ==
    \A k \in 1..Len(solution_words) :
        /\ Held
        /\ solution_words[k] \in dictionary.val
        /\ Len(solution_words[k]) >= 3

\* a 3-letter word found on a path of 2 tiles, while a 2-letter dictionary
\* word that the grid spells is not in the result
C2_Witness ==
    /\ pc = "done"
    /\ Held
    /\ \E path \in SimplePaths(grid) :
           Len(path) = 2 /\ Len(WordOf(grid, path)) = 3
                         /\ WordOf(grid, path) \in Found
    /\ \E w \in dictionary.val :
           Len(w) < 3 /\ HasSimplePath(grid, w) /\ w \notin Found

----------------------------------------------------------------------------
(* C3 *)

\* C3: every word of the result is spelled by a path of grid cells in which
\* no cell occurs twice and consecutive cells are horizontal, vertical or
\* diagonal neighbours.
C3_ResultsHaveSimplePaths ==
    \A k \in 1..Len(solution_words) :
        Held /\ HasSimplePath(grid, solution_words[k])

\* a search that found a word, on a grid where a dictionary word of 3
\* letters or more is spelled only by walks that come back to a cell
C3_Witness ==
    /\ pc = "done"
    /\ Held
    /\ solution_words # <<>>
    /\ \E w \in dictionary.val :
           /\ Len(w) >= 3
           /\ w \notin Found
           /\ \E walk \in Walks(grid, Len(w)) : WordOf(grid, walk) = w

----------------------------------------------------------------------------
(* C4 *)

\* what a search without pruning returns: the dictionary words of 3 letters
\* or more that some simple path spells
BruteForce(g, dict) == {w \in dict : Len(w) >= 3 /\ HasSimplePath(g, w)}

\* C4: when the search has ended, the set of words it found is the set a
\* brute-force enumeration of all simple paths finds.
C4_PruningEquivalence ==
    (pc = "done" /\ Held) => Found = BruteForce(grid, dictionary.val)

\* a finished search that found a word, and followed another dictionary
\* word for two letters or more on the grid without being able to end it
C4_Witness ==
    /\ pc = "done"
    /\ Held
    /\ solution_words # <<>>
    /\ \E w \in dictionary.val :
           /\ Len(w) >= 3
           /\ w \notin Found
           /\ \E n \in 2..(Len(w) - 1) : HasSimplePath(grid, SubSeq(w, 1, n))

----------------------------------------------------------------------------
(* C5 *)

\* C5: no word occurs twice in the result.
C5_ResultsAreUnique ==
    \A j, k \in 1..Len(solution_words) :
        j # k => solution_words[j] # solution_words[k]

\* a found word that two different simple paths spell
C5_Witness ==
    /\ pc = "done"
    /\ Held
    /\ \E p1, p2 \in SimplePaths(grid) :
           /\ p1 # p2
           /\ p1[1] # p2[1]
           /\ WordOf(grid, p1) = WordOf(grid, p2)
           /\ WordOf(grid, p1) \in Found

----------------------------------------------------------------------------
(* C6 *)

\* C6: on a constructed object, after any setGrid and setDictionary calls,
\* getSolution() is the empty sequence whenever the grid or the dictionary
\* is held as absent.
C6_AbsentInputYieldsEmpty ==
    (pc = "done" /\ ~Held) => getSolution = <<>>

----------------------------------------------------------------------------
(* C7 *)

\* the grid with every tile replaced by the letters it spells
NormalGrid(g) ==
    List([i \in 1..Rows(g) |->
             List([j \in 1..Cols(g) |-> Str(Spell(g.val[i].val[j].val))])])

RECURSIVE SortCells(_, _)
\* the cells of S in row-major order
SortCells(S, cols) ==
    IF S = {} THEN <<>>
    ELSE LET first == CHOOSE c \in S :
                          \A q \in S : c[1] * cols + c[2] <= q[1] * cols + q[2]
         IN  <<first>> \o SortCells(S \ {first}, cols)

RECURSIVE RefDfs(_, _, _, _, _, _)
RECURSIVE RefLoop(_, _, _, _, _, _, _)
\* the depth-first search on a grid of upper-case tiles: the result list
\* after the branch that enters cell c with the letters word behind it
RefDfs(g, dict, c, word, vis, sol) ==
    LET w == word \o Tile(g, c[1], c[2])
    IN  IF w = <<>> \/ ~\E x \in dict : IsPrefixOf(w, x) THEN sol
        ELSE RefLoop(g, dict, w, vis,
                     SortCells({q \in CellsOf(g) : Adjacent(c, q)}, Cols(g)),
                     1,
                     IF Len(w) >= 3 /\ w \in dict /\ w \notin Range(sol)
                     THEN Append(sol, w) ELSE sol)

RefLoop(g, dict, w, vis, nbrs, k, sol) ==
    IF k > Len(nbrs) THEN sol
    ELSE RefLoop(g, dict, w, vis, nbrs, k + 1,
                 IF nbrs[k] \in vis THEN sol
                 ELSE RefDfs(g, dict, nbrs[k], w, vis \cup {nbrs[k]}, sol))

RECURSIVE RefStarts(_, _, _, _, _)
RefStarts(g, dict, cells, k, sol) ==
    IF k > Len(cells) THEN sol
    ELSE RefStarts(g, dict, cells, k + 1,
                   RefDfs(g, dict, cells[k], <<>>, {cells[k]}, sol))

\* the result sequence of a grid of upper-case tiles and a set of
\* upper-case words
RefSolve(g, dict) ==
    RefStarts(g, dict, SortCells(CellsOf(g), Cols(g)), 1, <<>>)

\* C7: every returned word is in upper case; the held dictionary is the
\* set of the upper-case spellings of the entries supplied, whatever their
\* letter case; and the sequence the constructor leaves is the one the
\* search returns on the grid with every tile in upper case, so the letter
\* case of tiles and words does not change it.
C7_CaseInsensitive ==
    /\ \A k \in 1..Len(solution_words) : IsUpperWord(solution_words[k])
    /\ (call.op = "setDictionary" /\ ~IsNone(dictionary)) =>
           dictionary.val =
               {Spell(call.arg.val[k].val) : k \in 1..Len(call.arg.val)}
    /\ (pc = "done" /\ Held) =>
           getSolution = RefSolve(NormalGrid(grid), dictionary.val)

\* a finished search that found a word along a tile in lower case
C7_Witness ==
    /\ pc = "done"
    /\ Held
    /\ \E path \in SimplePaths(grid) :
           /\ WordOf(grid, path) \in Found
           /\ \E k \in 1..Len(path) :
                  Tile(grid, path[k][1], path[k][2]) = <<"a">>

\* a dictionary supplied with one word in two letter cases
C7_WitnessDictionary ==
    /\ call.op = "setDictionary"
    /\ ~IsNone(dictionary)
    /\ Len(call.arg.val) = 2
    /\ call.arg.val[1] # call.arg.val[2]
    /\ Cardinality(dictionary.val) = 1

----------------------------------------------------------------------------
(* C8 *)

\* C8: the search terminates: once _solve is entered, the loop over the
\* starting cells eventually completes, with every call of _dfs returned
\* (no call is left on the stack).
C8_SearchTerminates ==
    (pc \in {"solve", "dfs"}) ~> (pc = "done" /\ stack = <<>>)

\* a search that ran, descended into neighbours and came to its end
C8_Witness ==
    /\ pc = "done"
    /\ call.op = "_solve"
    /\ solution_words # <<>>

----------------------------------------------------------------------------
(* C9 *)

StackCells == {<<stack[k].row, stack[k].col>> : k \in 1..Len(stack)}

\* the neighbour a returned call has left marked for its caller to unmark
Pending ==
    IF stack # <<>> /\ Top.at = "back"
    THEN {Top.neighbors[Top.i]}
    ELSE {}

\* C9: while _dfs is active the visited set is exactly the set of cells on
\* the current path: the cells of the active calls, each once, from the
\* starting cell on, and the cell of a call that has just returned until
\* its caller unmarks it; a call that returns to _solve leaves exactly the
\* starting cell it was given.
C9_VisitedIsThePath ==
    /\ pc = "dfs" =>
           /\ visited = StackCells \cup Pending
           /\ Cardinality(StackCells) = Len(stack)
           /\ Pending \cap StackCells = {}
           /\ <<stack[1].row, stack[1].col>> = <<row, col>>
    /\ pc = "solve" => Cardinality(visited) <= 1

\* a call three levels down has just returned to its caller, which has not
\* unmarked its cell yet
C9_Witness ==
    /\ pc = "dfs"
    /\ Len(stack) = 2
    /\ Top.at = "back"
    /\ Cardinality(visited) = 3

----------------------------------------------------------------------------
(* C10 *)

\* C10 as claimed: an accepted grid has at least one row, rows of one
\* length, and a non-empty string in every cell.
C10_AcceptedGridCellsNonEmpty ==
    (call.op = "setGrid" /\ ~IsNone(grid)) =>
        /\ Len(grid.val) >= 1
        /\ \A i, j \in 1..Len(grid.val) :
               Len(grid.val[i].val) = Len(grid.val[j].val)
        /\ \A i \in 1..Len(grid.val) : \A j \in 1..Len(grid.val[i].val) :
               /\ grid.val[i].val[j].type = "str"
               /\ grid.val[i].val[j].val # <<>>

\* C10 as amended: an accepted grid is the list supplied, has at least one
\* row, rows that are lists of one length, and a string, possibly the
\* empty one, in every cell.
C10_AcceptedGridIsRectangleOfStrings ==
    (call.op = "setGrid" /\ ~IsNone(grid)) =>
        /\ grid = call.arg
        /\ grid.type = "list"
        /\ Len(grid.val) >= 1
        /\ \A i \in 1..Len(grid.val) : grid.val[i].type = "list"
        /\ \A i, j \in 1..Len(grid.val) :
               Len(grid.val[i].val) = Len(grid.val[j].val)
        /\ \A i \in 1..Len(grid.val) : \A j \in 1..Len(grid.val[i].val) :
               grid.val[i].val[j].type = "str"

\* an accepted grid of two rows
C10_Witness ==
    /\ call.op = "setGrid"
    /\ ~IsNone(grid)
    /\ Len(grid.val) = 2
    /\ Len(grid.val[1].val) = 2

====
